---- MODULE Spec2Model ----
(***************************************************************************)
(* Real-time status synchronisation layer of the LimAuto frontend:         *)
(*   useEnhancedWebSocket  (frontend/src/hooks/useEnhancedWebSocket.ts)    *)
(*   AgentProgress         (frontend/src/components/BookGenerationForm.tsx)*)
(*   useRealTimeStatus     (frontend/src/hooks/useRealTimeStatus.ts)       *)
(*   useAgentStatus        (frontend/src/hooks/useAgentStatus.ts)          *)
(* The host is a single-threaded event loop: every action below is one     *)
(* task of that loop (an effect, a timer callback, a transport event       *)
(* handler or a call made by the user of the hook).                        *)
(***************************************************************************)
EXTENDS Integers, Sequences, FiniteSets, TLC

(***************************************************************************)
(* Bounds of the model.                                                    *)
(***************************************************************************)
MaxSockets == 3
MaxTimers == 3
MaxAttemptsCfg == 2
MaxCapacityCfg == 2
MaxMsgs == 3
MaxEvents == 3
MaxAgentEvents == 4

(***************************************************************************)
(* Program constants.                                                      *)
(***************************************************************************)
NormalClosure == 1000
AbnormalClosure == 1006

VARIABLES
    \* ---- useEnhancedWebSocket: options
    maxMessages, maxReconnectAttempts,
    \* ---- useEnhancedWebSocket: React state
    messages, isConnected, connectionStatus, lastMessage,
    \* ---- useEnhancedWebSocket: refs
    wsRef, reconnectTimeoutRef, reconnectAttemptsRef, messageIdRef,
    \* ---- host: component phase, transports, timers, listener calls
    hookPhase, sockPhase, nSockets, retryTimers, manualTimers, nTimers,
    onMessageCalls, sentFrames,
    \* ---- AgentProgress
    enhancedStatus, effectPending,
    \* ---- useRealTimeStatus / useAgentStatus: snapshots
    agentStatuses, lastUpdate, status, dispatched,
    \* ---- heap: identity of the object each snapshot state refers to, and
    \* ---- the object a consumer kept a reference to
    apObj, apHeld, rtObj, rtHeld,
    \* ---- useRealTimeStatus: React state, refs, event sources, timers
    rtIsConnected, rtError, eventSourceRef, rtReconnectTimeoutRef,
    rtPhase, esPhase, nEventSources, rtTimers, nRtTimers,
    \* ---- useAgentStatus: React state, its event source
    asIsConnected, asPhase, asSource,
    \* ---- history of the run (read by the properties only)
    hist

wsVars == <<maxMessages, maxReconnectAttempts, messages, isConnected,
            connectionStatus, lastMessage, wsRef, reconnectTimeoutRef,
            reconnectAttemptsRef, messageIdRef, hookPhase, sockPhase,
            nSockets, retryTimers, manualTimers, nTimers, onMessageCalls,
            sentFrames>>
apSnapVars == <<enhancedStatus, apObj, apHeld>>
rtSnapVars == <<agentStatuses, lastUpdate, rtObj, rtHeld>>
apVars == <<apSnapVars, effectPending>>
rtConnVars == <<rtIsConnected, rtError, eventSourceRef, rtReconnectTimeoutRef,
                rtPhase, esPhase, nEventSources, rtTimers, nRtTimers>>
asConnVars == <<asIsConnected, asPhase, asSource>>
sseVars == <<rtSnapVars, status, dispatched, rtConnVars,
             asConnVars>>
vars == <<wsVars, apVars, sseVars, hist>>

SockIds == 1..MaxSockets
TimerIds == 1..MaxTimers
NullRef == 0

Min(a, b) == IF a < b THEN a ELSE b
Max(a, b) == IF a < b THEN b ELSE a

(***************************************************************************)
(* The WebSocket objects created by the hook.  sockPhase[s] is the         *)
(* position of socket s in the browser's life cycle:                       *)
(*   UNUSED      not created yet                                           *)
(*   CONNECTING  created, handshake in progress                            *)
(*   OPEN        handshake done, open event delivered                      *)
(*   CLOSING_C   close(1000) called while CONNECTING (the connection is    *)
(*               failed: the close event will carry an abnormal code)      *)
(*   CLOSING_O   close(1000) called while OPEN (closing handshake started) *)
(*   CLOSED      close event delivered                                     *)
(***************************************************************************)
SockPhases == {"UNUSED", "CONNECTING", "OPEN", "CLOSING_C", "CLOSING_O", "CLOSED"}

\* WebSocket.readyState as the code reads it (lines 53 and 139)
ReadyState(phase) ==
    CASE phase = "CONNECTING" -> "CONNECTING"
      [] phase = "OPEN" -> "OPEN"
      [] phase \in {"CLOSING_C", "CLOSING_O"} -> "CLOSING"
      [] OTHER -> "CLOSED"

\* WebSocket.close(1000, 'Manual disconnect') as called at line 130
CloseCall(phase) ==
    CASE phase = "CONNECTING" -> "CLOSING_C"
      [] phase = "OPEN" -> "CLOSING_O"
      [] OTHER -> phase

\* close codes other than 1000 that a close event can carry
AbnormalCodes == {1001, AbnormalClosure}

ConnectionStatuses == {"connecting", "connected", "disconnected", "error"}

(***************************************************************************)
(* The part of the hook's state that connect, disconnect and the transport *)
(* handlers read and write, as one record, so that a handler that calls    *)
(* another (reconnect calls disconnect, a timer calls connect) composes.   *)
(***************************************************************************)
Cur ==
    [connectionStatus |-> connectionStatus, isConnected |-> isConnected,
     wsRef |-> wsRef, reconnectTimeoutRef |-> reconnectTimeoutRef,
     reconnectAttemptsRef |-> reconnectAttemptsRef, sockPhase |-> sockPhase,
     nSockets |-> nSockets, retryTimers |-> retryTimers,
     manualTimers |-> manualTimers, nTimers |-> nTimers]

Commit(h) ==
    /\ connectionStatus' = h.connectionStatus
    /\ isConnected' = h.isConnected
    /\ wsRef' = h.wsRef
    /\ reconnectTimeoutRef' = h.reconnectTimeoutRef
    /\ reconnectAttemptsRef' = h.reconnectAttemptsRef
    /\ sockPhase' = h.sockPhase
    /\ nSockets' = h.nSockets
    /\ retryTimers' = h.retryTimers
    /\ manualTimers' = h.manualTimers
    /\ nTimers' = h.nTimers

\* connect returns early: the current socket is open (lines 53-55)
AlreadyOpen(h) ==
    h.wsRef # NullRef /\ ReadyState(h.sockPhase[h.wsRef]) = "OPEN"

\* connect (lines 52-121); throws: new WebSocket(url) throws
Connect(h, throws) ==
    IF AlreadyOpen(h) THEN h
    ELSE IF throws THEN [h EXCEPT !.connectionStatus = "error"]
    ELSE [h EXCEPT !.connectionStatus = "connecting",
                   !.nSockets = h.nSockets + 1,
                   !.sockPhase[h.nSockets + 1] = "CONNECTING",
                   !.wsRef = h.nSockets + 1]

\* the model has a socket left for this call of connect
SocketAvailable(h, throws) ==
    AlreadyOpen(h) \/ throws \/ h.nSockets < MaxSockets

\* disconnect (lines 123-136)
Disconnect(h) ==
    LET h1 == IF h.reconnectTimeoutRef # NullRef
              THEN [h EXCEPT !.retryTimers = @ \ {h.reconnectTimeoutRef},
                             !.reconnectTimeoutRef = NullRef]
              ELSE h
        h2 == IF h1.wsRef # NullRef
              THEN [h1 EXCEPT !.sockPhase[h1.wsRef] = CloseCall(@),
                              !.wsRef = NullRef]
              ELSE h1
    IN [h2 EXCEPT !.isConnected = FALSE, !.connectionStatus = "disconnected"]

\* an onopen that leaves the attempt counter as it is
OnOpen_KeepsAttempts(h) ==
    [h EXCEPT !.isConnected = TRUE, !.connectionStatus = "connected"]

\* ws.onopen (lines 63-69)
OnOpen(h) ==
    [h EXCEPT !.isConnected = TRUE, !.connectionStatus = "connected",
              !.reconnectAttemptsRef = 0]

\* ws.onerror (lines 112-116)
OnError(h) == [h EXCEPT !.connectionStatus = "error"]

\* the retry condition of ws.onclose (line 102)
ShouldRetry(code, attempts, maxAttempts) ==
    code # NormalClosure /\ attempts < maxAttempts

\* ws.onclose (lines 94-110)
OnClose(h, code, maxAttempts) ==
    LET h1 == [h EXCEPT !.isConnected = FALSE,
                        !.connectionStatus = "disconnected",
                        !.wsRef = NullRef]
    IN IF ShouldRetry(code, h.reconnectAttemptsRef, maxAttempts)
       THEN [h1 EXCEPT !.reconnectAttemptsRef = @ + 1,
                       !.reconnectTimeoutRef = h.nTimers + 1,
                       !.retryTimers = @ \cup {h.nTimers + 1},
                       !.nTimers = @ + 1]
       ELSE h1

\* the model has a timer left for this close event
TimerAvailable(h, code, maxAttempts) ==
    ShouldRetry(code, h.reconnectAttemptsRef, maxAttempts) => h.nTimers < MaxTimers

(***************************************************************************)
(* Frames and JSON values.  A raw frame is text; what the code does with   *)
(* it depends only on whether JSON.parse accepts it and on the value it    *)
(* parses to, so a frame is modelled by those two.  `undefined' fields are *)
(* NoAgent, NoWorkflow, EmptyAgents: the code reads enhancedStatus.agents  *)
(* and .workflow_progress only through `?.' and `||', which do not tell an *)
(* absent field from an empty one.                                         *)
(***************************************************************************)
Names == {"A", "B"}
Statuses == {"running", "failed"}

NoAgent == [agent_name |-> "", status |-> "", progress_percent |-> -1]
AgentRecords ==
    [agent_name : Names, status : Statuses, progress_percent : {40}]

NoWorkflow == [total_agents |-> -1, completed_agents |-> -1]
Workflows == {[total_agents |-> 5, completed_agents |-> 1]}

EmptyAgents == [n \in {} |-> NoAgent]
AgentMaps ==
    {EmptyAgents,
     [n \in {"A"} |-> [agent_name |-> "A", status |-> "completed",
                       progress_percent |-> 40]]}

\* enhancedStatus === null (line 547)
NullStatus ==
    [isNull |-> TRUE, agents |-> EmptyAgents, workflow_progress |-> NoWorkflow,
     own |-> NoWorkflow]

\* payload of a complete_status frame: {agents, workflow_progress}
CompletePayloads ==
    {[isNull |-> FALSE, agents |-> m, workflow_progress |-> w, own |-> NoWorkflow] :
        m \in AgentMaps, w \in {[total_agents |-> 5, completed_agents |-> 2]}}

\* payload of a workflow_progress frame: a WorkflowProgress object
\* (lines 525-536), whose fields are the object's own
WorkflowPayloads ==
    {[isNull |-> FALSE, agents |-> EmptyAgents, workflow_progress |-> NoWorkflow,
      own |-> w] : w \in Workflows}

NoValue == [type |-> "", agent |-> NoAgent, snap |-> NullStatus]

AgentStatusValues ==
    {[type |-> "agent_status", agent |-> a, snap |-> NullStatus] : a \in AgentRecords}
WorkflowValues ==
    {[type |-> "workflow_progress", agent |-> NoAgent, snap |-> w] : w \in WorkflowPayloads}
CompleteValues ==
    {[type |-> "complete_status", agent |-> NoAgent, snap |-> c] : c \in CompletePayloads}
OtherValues == {[type |-> "heartbeat", agent |-> NoAgent, snap |-> NullStatus]}

\* JSON.stringify(value): the text of a value
Stringify(value) == [wellFormed |-> TRUE, value |-> value]

\* a frame that is not JSON
BadFrame == [wellFormed |-> FALSE, value |-> NoValue]

\* a JSON.parse that accepts every text
ParseJSON_Lenient(text) == [ok |-> TRUE, value |-> text.value]

\* JSON.parse(text): ok = FALSE when it throws
ParseJSON(text) ==
    IF text.wellFormed THEN [ok |-> TRUE, value |-> text.value]
    ELSE [ok |-> FALSE, value |-> NoValue]

EventValues == AgentStatusValues \cup WorkflowValues \cup CompleteValues
AllFrames == {Stringify(v) : v \in EventValues \cup OtherValues} \cup {BadFrame}

(***************************************************************************)
(* The messages buffer (lines 82-85 and 151-154).                          *)
(***************************************************************************)
NoMessage == [id |-> -1, message |-> BadFrame, type |-> "none"]

\* Array.prototype.slice(-n): the start index is -n relative to the end
\* when -n < 0, and 0 when -n is (minus) zero
SliceLast(arr, n) ==
    LET k == IF n > 0 THEN Max(Len(arr) - n, 0) ELSE 0
    IN SubSeq(arr, k + 1, Len(arr))

\* prev => { updated = [...prev, m]; cap the length }
AppendMessage(prev, m, cap) ==
    LET updated == Append(prev, m)
    IN IF Len(updated) > cap THEN SliceLast(updated, cap) ELSE updated

(***************************************************************************)
(* AgentProgress: the merge of one parsed message into enhancedStatus      *)
(* (lines 556-572).                                                        *)
(***************************************************************************)
\* a merge that forgets the other agents: { [name]: data }
PutAgent_DropOthers(agents, a) == [n \in {a.agent_name} |-> a]

\* { ...prev?.agents || {}, [name]: data }
PutAgent(agents, a) ==
    [n \in DOMAIN agents \cup {a.agent_name} |->
        IF n = a.agent_name THEN a ELSE agents[n]]

\* a merge in which complete_status adds to the agents map
ApplyMessage_MergeComplete(prev, text) ==
    LET parsed == ParseJSON(text)
        data == parsed.value
    IN IF ~parsed.ok THEN prev
       ELSE IF data.type = "complete_status"
            THEN [data.snap EXCEPT !.agents =
                    [n \in DOMAIN prev.agents \cup DOMAIN data.snap.agents |->
                        IF n \in DOMAIN data.snap.agents THEN data.snap.agents[n]
                        ELSE prev.agents[n]]]
       ELSE IF data.type = "workflow_progress" THEN data.snap
       ELSE IF data.type = "agent_status"
            THEN [prev EXCEPT !.isNull = FALSE,
                              !.agents = PutAgent(prev.agents, data.agent)]
       ELSE prev

ApplyMessage(prev, text) ==
    LET parsed == ParseJSON(text)
        data == parsed.value
    IN IF ~parsed.ok THEN prev
       ELSE IF data.type \in {"complete_status", "workflow_progress"}
            THEN data.snap
       ELSE IF data.type = "agent_status"
            THEN [prev EXCEPT !.isNull = FALSE,
                              !.agents = PutAgent(prev.agents, data.agent)]
       ELSE prev

(***************************************************************************)
(* useRealTimeStatus: the merge of one status update (lines 37-56).        *)
(***************************************************************************)
NoTimestamp == 0

\* the values of the `error' state of useRealTimeStatus (lines 15, 61, 71)
NoError == "null"
ConnectionLost == "Connection lost. Attempting to reconnect..."
FailedToConnect == "Failed to connect to real-time updates"
ClockValues == {2, 3}

\* the discriminators the decoder of AgentProgress knows (lines 560, 563)
KnownTypes == {"agent_status", "workflow_progress", "complete_status"}

\* the status updates of the stream; `type' is the discriminator of the
\* frame ("" when the frame has none), which lines 37-56 never read
RtValues ==
    [type : {"agent_status"}, agent : Names, status : Statuses,
     progress : {40}, message : {"m"}, timestamp : {NoTimestamp, 1}]
NoRtValue ==
    [type |-> "", agent |-> "", status |-> "", progress |-> -1,
     message |-> "", timestamp |-> NoTimestamp]

\* JSON objects that are no status update: a heartbeat that names an agent,
\* and an object without discriminator and without any field of a status
\* update (data.agent is undefined, the computed key is "undefined")
RtOtherValues ==
    {[type |-> "heartbeat", agent |-> "A", status |-> "running",
      progress |-> 40, message |-> "m", timestamp |-> 1],
     [NoRtValue EXCEPT !.agent = "undefined"]}
RtOtherFrames == {Stringify(v) : v \in RtOtherValues}
RtBadFrame == [wellFormed |-> FALSE, value |-> NoRtValue]
RtFrames == {Stringify(v) : v \in RtValues} \cup {RtBadFrame}
EmptyStatuses == [n \in {} |-> NoRtValue]

\* the entry built at lines 44-48; now: new Date().toISOString()
RtEntry(data, now) ==
    [agent |-> data.agent, status |-> data.status, progress |-> data.progress,
     message |-> data.message,
     timestamp |-> IF data.timestamp # NoTimestamp THEN data.timestamp ELSE now]

\* a merge that treats 'failed' as terminal
RtMerge_FailedTerminal(prev, data, now) ==
    [n \in DOMAIN prev \cup {data.agent} |->
        IF n = data.agent
        THEN IF n \in DOMAIN prev /\ prev[n].status = "failed"
             THEN [RtEntry(data, now) EXCEPT !.status = "failed"]
             ELSE RtEntry(data, now)
        ELSE prev[n]]

\* prev => ({ ...prev, [data.agent]: entry })
RtMerge(prev, data, now) ==
    [n \in DOMAIN prev \cup {data.agent} |->
        IF n = data.agent THEN RtEntry(data, now) ELSE prev[n]]

(***************************************************************************)
(* useAgentStatus (lines 13-60).                                           *)
(***************************************************************************)
AsValues ==
    [current_agent : Names, next_agent : {"B"}, progress_percent : {40, 80}]
NoAsValue == [current_agent |-> "", next_agent |-> "", progress_percent |-> -1]
AsBadFrame == [wellFormed |-> FALSE, value |-> NoAsValue]
AsFrames == {Stringify(v) : v \in AsValues} \cup {AsBadFrame}

(***************************************************************************)
(* Snapshot objects.  A React state holds a reference to an object; the    *)
(* updaters at BookGenerationForm.tsx lines 560-568 and useRealTimeStatus  *)
(* lines 41-50 build the next object and the state then refers to it.      *)
(* apObj and rtObj are the identities of the objects the two states refer  *)
(* to (NullRef: enhancedStatus === null).  A consumer that kept the object *)
(* it was given in some render holds [ref, then, now]: the identity of the *)
(* object, its content when it was taken and its content now.              *)
(***************************************************************************)
NoRef == -1
NotHeld(v) == [ref |-> NoRef, then |-> v, now |-> v]

\* an updater that writes the event into the object of prev and returns it
SetState_InPlace(obj, held, value) ==
    IF obj = NullRef THEN [obj |-> obj + 1, held |-> held]
    ELSE [obj |-> obj,
          held |-> IF held.ref = obj THEN [held EXCEPT !.now = value] ELSE held]

\* setEnhancedStatus / setAgentStatuses with a value built by an object
\* literal ({ ...prev, ... }) or by JSON.parse: the state refers to a new
\* object and no existing object is written
SetState(obj, held, value) == [obj |-> obj + 1, held |-> held]

\* the effect of AgentProgress calls setEnhancedStatus for this message
\* (lines 559-569)
SetsStatus(text) ==
    ParseJSON(text).ok /\ ParseJSON(text).value.type \in KnownTypes

(***************************************************************************)
(* History of the run, written by the actions and read by the properties.  *)
(***************************************************************************)
NotSeen == [seen |-> FALSE, text |-> BadFrame]
RtNotSeen == [seen |-> FALSE, text |-> RtBadFrame]
AsNotSeen == [seen |-> FALSE, text |-> AsBadFrame]

InitHist ==
    [abnormal |-> 0, scheduled |-> 0, rtScheduled |-> 0, late |-> {},
     appended |-> <<>>, applied |-> <<>>, threw |-> {},
     apLast |-> NotSeen, apPrev |-> NullStatus,
     apBase |-> EmptyAgents, apEvents |-> <<>>,
     rtEvents |-> <<>>, rtLast |-> RtNotSeen, rtPrev |-> EmptyStatuses,
     asLast |-> AsNotSeen,
     asPrev |-> [status |-> NoAsValue, dispatched |-> <<>>]]

(***************************************************************************)
(* Initial state: the hooks' useState / useRef initial values (lines       *)
(* 42-50), before any effect has run.                                      *)
(***************************************************************************)
InitWith(caps, attempts) ==
    /\ maxMessages \in caps
    /\ maxReconnectAttempts \in attempts
    /\ messages = <<>>
    /\ isConnected = FALSE
    /\ connectionStatus = "disconnected"
    /\ lastMessage = NoMessage
    /\ wsRef = NullRef
    /\ reconnectTimeoutRef = NullRef
    /\ reconnectAttemptsRef = 0
    /\ messageIdRef = 0
    /\ hookPhase = "init"
    /\ sockPhase = [s \in SockIds |-> "UNUSED"]
    /\ nSockets = 0
    /\ retryTimers = {}
    /\ manualTimers = {}
    /\ nTimers = 0
    /\ onMessageCalls = <<>>
    /\ sentFrames = <<>>
    /\ enhancedStatus = NullStatus
    /\ effectPending = FALSE
    /\ agentStatuses = EmptyStatuses
    /\ lastUpdate = NoTimestamp
    /\ status = NoAsValue
    /\ dispatched = <<>>
    /\ apObj = NullRef
    /\ apHeld = NotHeld(NullStatus)
    /\ rtObj = 1
    /\ rtHeld = NotHeld(EmptyStatuses)
    /\ rtIsConnected = FALSE
    /\ rtError = NoError
    /\ eventSourceRef = NullRef
    /\ rtReconnectTimeoutRef = NullRef
    /\ rtPhase = "init"
    /\ esPhase = [e \in SockIds |-> "UNUSED"]
    /\ nEventSources = 0
    /\ rtTimers = {}
    /\ nRtTimers = 0
    /\ asIsConnected = FALSE
    /\ asPhase = "init"
    /\ asSource = "UNUSED"
    /\ hist = InitHist

Init == InitWith(0..MaxCapacityCfg, 0..MaxAttemptsCfg)

msgVars == <<messages, lastMessage, messageIdRef, onMessageCalls, sentFrames>>
cfgVars == <<maxMessages, maxReconnectAttempts>>

(***************************************************************************)
(* useEnhancedWebSocket: effects, timers and calls.                        *)
(***************************************************************************)
\* mount: the effect at lines 175-181 runs connect(); the effect of
\* AgentProgress runs in the same commit and finds no message.  The state
\* setters are modelled as taking effect in every phase of the component.
Mount(throws) ==
    /\ hookPhase = "init"
    /\ SocketAvailable(Cur, throws)
    /\ Commit(Connect(Cur, throws))
    /\ hookPhase' = "mounted"
    /\ UNCHANGED <<cfgVars, msgVars, apVars, sseVars, hist>>

\* a dependency of the effect changed: cleanup (disconnect) then connect
EffectRerun(throws) ==
    /\ hookPhase = "mounted"
    /\ SocketAvailable(Disconnect(Cur), throws)
    /\ Commit(Connect(Disconnect(Cur), throws))
    /\ UNCHANGED <<cfgVars, msgVars, hookPhase, apVars, sseVars, hist>>

\* the cleanup of the second effect (lines 184-190)
ClearTimeoutRef(h) ==
    IF h.reconnectTimeoutRef # NullRef
    THEN [h EXCEPT !.retryTimers = @ \ {h.reconnectTimeoutRef}]
    ELSE h

\* unmount: both cleanups, in the order the effects are declared
Unmount ==
    /\ hookPhase = "mounted"
    /\ Commit(ClearTimeoutRef(Disconnect(Cur)))
    /\ hookPhase' = "unmounted"
    /\ UNCHANGED <<cfgVars, msgVars, apVars, sseVars, hist>>

\* a reconnect that starts over with an empty buffer
Reconnect_FreshBuffer ==
    /\ hookPhase = "mounted"
    /\ nTimers < MaxTimers
    /\ LET h == Disconnect(Cur)
       IN Commit([h EXCEPT !.reconnectAttemptsRef = 0,
                           !.manualTimers = @ \cup {h.nTimers + 1},
                           !.nTimers = @ + 1])
    /\ messages' = <<>>
    /\ lastMessage' = NoMessage
    /\ hist' = [hist EXCEPT !.abnormal = 0, !.scheduled = 0, !.appended = <<>>]
    /\ UNCHANGED <<cfgVars, messageIdRef, onMessageCalls, sentFrames, hookPhase,
                   apVars, sseVars>>

\* reconnect (lines 163-167)
Reconnect ==
    /\ hookPhase = "mounted"
    /\ nTimers < MaxTimers
    /\ LET h == Disconnect(Cur)
       IN Commit([h EXCEPT !.reconnectAttemptsRef = 0,
                           !.manualTimers = @ \cup {h.nTimers + 1},
                           !.nTimers = @ + 1])
    /\ hist' = [hist EXCEPT !.abnormal = 0, !.scheduled = 0]
    /\ UNCHANGED <<cfgVars, msgVars, hookPhase, apVars, sseVars>>

\* the retry timer set at line 106 fires
RetryTimerFire(t, throws) ==
    /\ t \in retryTimers
    /\ LET h == [Cur EXCEPT !.retryTimers = @ \ {t}]
       IN /\ SocketAvailable(h, throws)
          /\ Commit(Connect(h, throws))
    /\ UNCHANGED <<cfgVars, msgVars, hookPhase, apVars, sseVars, hist>>

\* the timer set by reconnect at line 166 fires
ManualTimerFire(t, throws) ==
    /\ t \in manualTimers
    /\ LET h == [Cur EXCEPT !.manualTimers = @ \ {t}]
       IN /\ SocketAvailable(h, throws)
          /\ Commit(Connect(h, throws))
    /\ UNCHANGED <<cfgVars, msgVars, hookPhase, apVars, sseVars, hist>>

(***************************************************************************)
(* useEnhancedWebSocket: transport events.                                 *)
(***************************************************************************)
\* the handshake of socket s succeeds: open event
WsOpen(s) ==
    /\ sockPhase[s] = "CONNECTING"
    /\ Commit(OnOpen([Cur EXCEPT !.sockPhase[s] = "OPEN"]))
    /\ hist' = [hist EXCEPT !.abnormal = 0, !.scheduled = 0]
    /\ UNCHANGED <<cfgVars, msgVars, hookPhase, apVars, sseVars>>

\* what a close event with this code adds to the history
CloseHist(code) ==
    IF code = NormalClosure THEN hist
    ELSE [hist EXCEPT
            !.abnormal = @ + 1,
            !.scheduled = IF ShouldRetry(code, reconnectAttemptsRef,
                                         maxReconnectAttempts)
                          THEN @ + 1 ELSE @]

\* the connection of socket s fails (handshake refused, network lost, or
\* close() called before the handshake finished): the browser fires error
\* and then close with code 1006, in one task
WsFail(s) ==
    /\ sockPhase[s] \in {"CONNECTING", "OPEN", "CLOSING_C", "CLOSING_O"}
    /\ LET h == OnError([Cur EXCEPT !.sockPhase[s] = "CLOSED"])
       IN /\ TimerAvailable(h, AbnormalClosure, maxReconnectAttempts)
          /\ Commit(OnClose(h, AbnormalClosure, maxReconnectAttempts))
    /\ hist' = CloseHist(AbnormalClosure)
    /\ UNCHANGED <<cfgVars, msgVars, hookPhase, apVars, sseVars>>

\* the closing handshake of socket s completes: started by the server with
\* any code, or by close(1000) on an open socket
WsCloseClean(s, code) ==
    /\ \/ sockPhase[s] = "OPEN"
       \/ sockPhase[s] = "CLOSING_O" /\ code = NormalClosure
    /\ LET h == [Cur EXCEPT !.sockPhase[s] = "CLOSED"]
       IN /\ TimerAvailable(h, code, maxReconnectAttempts)
          /\ Commit(OnClose(h, code, maxReconnectAttempts))
    /\ hist' = CloseHist(code)
    /\ UNCHANGED <<cfgVars, msgVars, hookPhase, apVars, sseVars>>

(***************************************************************************)
(* useEnhancedWebSocket: messages.                                         *)
(***************************************************************************)
connVars == <<connectionStatus, isConnected, wsRef, reconnectTimeoutRef,
              reconnectAttemptsRef, sockPhase, nSockets, retryTimers,
              manualTimers, nTimers, hookPhase>>

\* the data of a message event or the argument of sendMessage: a string, or
\* an object (a binary frame, of which JSON.stringify sees no field, is the
\* object NoValue)
DataInputs(texts, values) ==
    {[isString |-> TRUE, text |-> f, value |-> NoValue] : f \in texts}
    \cup {[isString |-> FALSE, text |-> BadFrame, value |-> v] : v \in values}

\* typeof data === 'string' ? data : JSON.stringify(data) (lines 73, 141)
ToText(data) == IF data.isString THEN data.text ELSE Stringify(data.value)

\* a handler that notifies the listener before it stores the message: a
\* throwing listener then skips the rest of the try block
OnMessage_ListenerFirst(hst, data, throws) ==
    /\ messageIdRef < MaxMsgs
    /\ LET newMessage == [id |-> messageIdRef, message |-> ToText(data),
                          type |-> "received"]
       IN /\ onMessageCalls' = Append(onMessageCalls, newMessage)
          /\ IF throws
             THEN /\ hist' = [hst EXCEPT !.threw = @ \cup {newMessage.id}]
                  /\ UNCHANGED <<messages, lastMessage, effectPending>>
             ELSE /\ messages' = AppendMessage(messages, newMessage, maxMessages)
                  /\ lastMessage' = newMessage
                  /\ effectPending' = TRUE
                  /\ hist' = [hst EXCEPT !.appended = Append(@, newMessage)]
    /\ messageIdRef' = messageIdRef + 1
    /\ UNCHANGED <<cfgVars, connVars, sentFrames, apSnapVars, sseVars>>

\* the body of ws.onmessage (lines 71-92); hst is the history so far;
\* throws: the listener onMessage throws.  The listener is the last
\* statement of the try block, whose catch only logs: when it throws, the
\* two state updates before it have been made and nothing is skipped.
OnMessage(hst, data, throws) ==
    /\ messageIdRef < MaxMsgs
    /\ LET newMessage == [id |-> messageIdRef, message |-> ToText(data),
                          type |-> "received"]
       IN /\ messages' = AppendMessage(messages, newMessage, maxMessages)
          /\ lastMessage' = newMessage
          /\ onMessageCalls' = Append(onMessageCalls, newMessage)
          /\ hist' = [hst EXCEPT
                        !.appended = Append(@, newMessage),
                        !.threw = IF throws THEN @ \cup {newMessage.id} ELSE @]
    /\ messageIdRef' = messageIdRef + 1
    /\ effectPending' = TRUE
    /\ UNCHANGED <<cfgVars, connVars, sentFrames, apSnapVars, sseVars>>

\* ws.onmessage (lines 71-92) for a frame received on the open socket s,
\* with a listener that returns
WsOnMessage(s, data) ==
    /\ sockPhase[s] = "OPEN"
    /\ OnMessage(hist, data, FALSE)

\* the browser fires the message event of a WebSocket, and so runs the
\* handler registered at line 71, only if the socket's readyState is OPEN
MessageEventFires_WhileClosing(phase) == ReadyState(phase) \in {"OPEN", "CLOSING"}

MessageEventFires(phase) == ReadyState(phase) = "OPEN"

\* the history after a frame that reached a transport of the hook `tag';
\* late: close() had been called on the transport before.  One late frame
\* per hook is followed.
FrameHist(late, tag) == IF late THEN [hist EXCEPT !.late = @ \cup {tag}] ELSE hist

\* a frame of the server reaches socket s, whose connection is established:
\* s is open, or close() was called on it and its closing handshake is not
\* finished; throws: the listener, if it is called, throws
WsFrame(s, data, throws) ==
    LET late == sockPhase[s] = "CLOSING_O"
    IN /\ sockPhase[s] \in {"OPEN", "CLOSING_O"}
       /\ late => "ws" \notin hist.late
       /\ IF MessageEventFires(sockPhase[s])
          THEN OnMessage(FrameHist(late, "ws"), data, throws)
          ELSE /\ hist' = FrameHist(late, "ws")
               /\ UNCHANGED <<wsVars, apVars, sseVars>>

\* a sendMessage that does not look at the socket's readyState
SendMessage_AnyState(data) ==
    /\ hookPhase = "mounted"
    /\ messageIdRef < MaxMsgs
    /\ LET messageString == ToText(data)
           sentMessage == [id |-> messageIdRef, message |-> messageString,
                           type |-> "sent"]
       IN /\ sentFrames' = Append(sentFrames, <<wsRef, messageString>>)
          /\ messages' = AppendMessage(messages, sentMessage, maxMessages)
          /\ hist' = [hist EXCEPT !.appended = Append(@, sentMessage)]
          /\ messageIdRef' = messageIdRef + 1
          /\ effectPending' = TRUE
    /\ UNCHANGED <<cfgVars, connVars, lastMessage, onMessageCalls,
                   apSnapVars, sseVars>>

\* sendMessage (lines 138-161)
SendMessage(data) ==
    /\ hookPhase = "mounted"
    /\ messageIdRef < MaxMsgs
    /\ IF wsRef # NullRef /\ ReadyState(sockPhase[wsRef]) = "OPEN"
       THEN LET messageString == ToText(data)
                sentMessage == [id |-> messageIdRef, message |-> messageString,
                                type |-> "sent"]
            IN /\ sentFrames' = Append(sentFrames, <<wsRef, messageString>>)
               /\ messages' = AppendMessage(messages, sentMessage, maxMessages)
               /\ hist' = [hist EXCEPT !.appended = Append(@, sentMessage)]
               /\ messageIdRef' = messageIdRef + 1
               /\ effectPending' = TRUE
       ELSE UNCHANGED <<sentFrames, messages, hist, messageIdRef, effectPending>>
    /\ UNCHANGED <<cfgVars, connVars, lastMessage, onMessageCalls,
                   apSnapVars, sseVars>>

\* clearMessages (lines 169-172)
ClearMessages ==
    /\ hookPhase = "mounted"
    /\ messages' = <<>>
    /\ lastMessage' = NoMessage
    /\ effectPending' = TRUE
    /\ hist' = [hist EXCEPT !.appended = <<>>]
    /\ UNCHANGED <<cfgVars, connVars, messageIdRef, onMessageCalls, sentFrames,
                   apSnapVars, sseVars>>

(***************************************************************************)
(* AgentProgress: the effect on [messages] (lines 552-574).  It runs once  *)
(* after a render in which messages changed and reads the latest message   *)
(* only.                                                                   *)
(***************************************************************************)
\* the agent_status events merged since the snapshot was last replaced
ApHist(text) ==
    LET parsed == ParseJSON(text)
        h1 == [hist EXCEPT !.apLast = [seen |-> TRUE, text |-> text],
                           !.apPrev = enhancedStatus]
    IN IF parsed.ok /\ parsed.value.type = "agent_status"
       THEN [h1 EXCEPT !.apEvents = Append(@, parsed.value.agent)]
       ELSE IF parsed.ok /\ parsed.value.type \in {"complete_status", "workflow_progress"}
       THEN [h1 EXCEPT !.apBase = parsed.value.snap.agents, !.apEvents = <<>>]
       ELSE h1

ApEffect ==
    /\ hookPhase = "mounted"
    /\ effectPending
    /\ effectPending' = FALSE
    /\ IF messages # <<>>
       THEN LET latestMessage == messages[Len(messages)]
                value == ApplyMessage(enhancedStatus, latestMessage.message)
                heap == IF SetsStatus(latestMessage.message)
                        THEN SetState(apObj, apHeld, value)
                        ELSE [obj |-> apObj, held |-> apHeld]
            IN /\ enhancedStatus' = value
               /\ apObj' = heap.obj
               /\ apHeld' = heap.held
               /\ hist' = [ApHist(latestMessage.message) EXCEPT
                              !.applied = Append(@, latestMessage.id)]
       ELSE UNCHANGED <<apSnapVars, hist>>
    /\ UNCHANGED <<wsVars, sseVars>>

(***************************************************************************)
(* useRealTimeStatus and useAgentStatus: eventSource.onmessage.            *)
(***************************************************************************)
\* useRealTimeStatus.ts lines 37-56
RtHandle(hst, text, now) ==
    /\ Len(hist.rtEvents) < MaxEvents
    /\ LET parsed == ParseJSON(text)
           h1 == [hst EXCEPT !.rtLast = [seen |-> TRUE, text |-> text],
                              !.rtPrev = agentStatuses]
       IN IF parsed.ok
          THEN LET value == RtMerge(agentStatuses, parsed.value, now)
                   heap == SetState(rtObj, rtHeld, value)
               IN /\ agentStatuses' = value
                  /\ rtObj' = heap.obj
                  /\ rtHeld' = heap.held
               /\ lastUpdate' = now
               /\ hist' = [h1 EXCEPT !.rtEvents =
                              Append(@, [data |-> parsed.value, now |-> now])]
          ELSE /\ UNCHANGED rtSnapVars
               /\ hist' = h1
    /\ UNCHANGED <<wsVars, apVars, status, dispatched, rtConnVars, asConnVars>>

RtOnMessage(text, now) == RtHandle(hist, text, now)

\* a handler that keeps the first status it parsed
AsHandle_KeepsFirst(hst, text) ==
    /\ Len(dispatched) < MaxEvents
    /\ LET parsed == ParseJSON(text)
       IN IF parsed.ok
          THEN /\ status' = IF status = NoAsValue THEN parsed.value ELSE status
               /\ dispatched' = Append(dispatched, parsed.value)
          ELSE UNCHANGED <<status, dispatched>>
    /\ hist' = [hst EXCEPT !.asLast = [seen |-> TRUE, text |-> text],
                            !.asPrev = [status |-> status,
                                        dispatched |-> dispatched]]
    /\ UNCHANGED <<wsVars, apVars, rtSnapVars, rtConnVars,
                   asConnVars>>

\* useAgentStatus.ts lines 30-40
AsHandle(hst, text) ==
    /\ Len(dispatched) < MaxEvents
    /\ LET parsed == ParseJSON(text)
       IN IF parsed.ok
          THEN /\ status' = parsed.value
               /\ dispatched' = Append(dispatched, parsed.value)
          ELSE UNCHANGED <<status, dispatched>>
    /\ hist' = [hst EXCEPT !.asLast = [seen |-> TRUE, text |-> text],
                            !.asPrev = [status |-> status,
                                        dispatched |-> dispatched]]
    /\ UNCHANGED <<wsVars, apVars, rtSnapVars, rtConnVars,
                   asConnVars>>

AsOnMessage(text) == AsHandle(hist, text)

(***************************************************************************)
(* Consumers of the snapshots.                                             *)
(***************************************************************************)
\* a render of AgentProgress keeps the object enhancedStatus refers to
\* (read at lines 577-578)
ApHold ==
    /\ hookPhase = "mounted"
    /\ ~enhancedStatus.isNull
    /\ apHeld' = [ref |-> apObj, then |-> enhancedStatus, now |-> enhancedStatus]
    /\ UNCHANGED <<wsVars, enhancedStatus, apObj, effectPending, sseVars, hist>>

\* a render of the user of useRealTimeStatus keeps the object agentStatuses
\* refers to (returned at line 97)
RtHold ==
    /\ rtPhase = "mounted"
    /\ rtHeld' = [ref |-> rtObj, then |-> agentStatuses, now |-> agentStatuses]
    /\ UNCHANGED <<wsVars, apVars, agentStatuses, lastUpdate, rtObj, status,
                   dispatched, rtConnVars, asConnVars, hist>>

(***************************************************************************)
(* useRealTimeStatus: connection.  esPhase[e] is the position of the       *)
(* EventSource e in the browser's life cycle: UNUSED (not created yet),    *)
(* CONNECTING, OPEN, CLOSED.  An EventSource whose connection is lost goes *)
(* back to CONNECTING and the browser reconnects it by itself; one whose   *)
(* connection is refused, or on which close() was called, is CLOSED.       *)
(***************************************************************************)
EsPhases == {"UNUSED", "CONNECTING", "OPEN", "CLOSED"}

RtCur ==
    [isConnected |-> rtIsConnected, error |-> rtError,
     eventSourceRef |-> eventSourceRef,
     reconnectTimeoutRef |-> rtReconnectTimeoutRef, esPhase |-> esPhase,
     nEventSources |-> nEventSources, timers |-> rtTimers,
     nTimers |-> nRtTimers]

RtCommit(h) ==
    /\ rtIsConnected' = h.isConnected
    /\ rtError' = h.error
    /\ eventSourceRef' = h.eventSourceRef
    /\ rtReconnectTimeoutRef' = h.reconnectTimeoutRef
    /\ esPhase' = h.esPhase
    /\ nEventSources' = h.nEventSources
    /\ rtTimers' = h.timers
    /\ nRtTimers' = h.nTimers

\* if (eventSourceRef.current) eventSourceRef.current.close() (lines 24-26
\* and 87-89); close() on an UNUSED source does not occur
RtCloseCurrent(h) ==
    IF h.eventSourceRef # NullRef
    THEN [h EXCEPT !.esPhase[h.eventSourceRef] = "CLOSED"]
    ELSE h

\* a connect that leaves the existing event source open
RtConnect_KeepsPrevious(h, throws) ==
    IF throws
    THEN [h EXCEPT !.error = FailedToConnect, !.isConnected = FALSE]
    ELSE [h EXCEPT !.nEventSources = @ + 1,
                   !.esPhase[h.nEventSources + 1] = "CONNECTING",
                   !.eventSourceRef = h.nEventSources + 1]

\* connect (lines 21-74); throws: apiClient.createEventSource() throws
RtConnect(h, throws) ==
    LET h1 == RtCloseCurrent(h)
    IN IF throws
       THEN [h1 EXCEPT !.error = FailedToConnect, !.isConnected = FALSE]
       ELSE [h1 EXCEPT !.nEventSources = @ + 1,
                       !.esPhase[h1.nEventSources + 1] = "CONNECTING",
                       !.eventSourceRef = h1.nEventSources + 1]

\* the model has an event source left for this call of connect
EventSourceAvailable(h, throws) == throws \/ h.nEventSources < MaxSockets

\* eventSource.onopen (lines 31-35)
RtOnOpen(h) == [h EXCEPT !.isConnected = TRUE, !.error = NoError]

\* eventSource.onerror (lines 58-67)
RtOnError(h) ==
    [h EXCEPT !.isConnected = FALSE, !.error = ConnectionLost,
              !.reconnectTimeoutRef = h.nTimers + 1,
              !.timers = @ \cup {h.nTimers + 1},
              !.nTimers = @ + 1]

\* clearTimeout(reconnectTimeoutRef.current) (lines 77-79 and 90-92)
RtClearTimeout(h) ==
    IF h.reconnectTimeoutRef # NullRef
    THEN [h EXCEPT !.timers = @ \ {h.reconnectTimeoutRef}]
    ELSE h

\* mount: the effect at lines 83-94 runs connect()
RtMount(throws) ==
    /\ rtPhase = "init"
    /\ EventSourceAvailable(RtCur, throws)
    /\ RtCommit(RtConnect(RtCur, throws))
    /\ rtPhase' = "mounted"
    /\ UNCHANGED <<wsVars, apVars, rtSnapVars, status,
                   dispatched, asConnVars, hist>>

\* unmount: the cleanup at lines 86-93
RtUnmount ==
    /\ rtPhase = "mounted"
    /\ RtCommit(RtClearTimeout(RtCloseCurrent(RtCur)))
    /\ rtPhase' = "unmounted"
    /\ UNCHANGED <<wsVars, apVars, rtSnapVars, status,
                   dispatched, asConnVars, hist>>

\* reconnect (lines 76-81)
RtReconnect(throws) ==
    /\ rtPhase = "mounted"
    /\ EventSourceAvailable(RtCur, throws)
    /\ RtCommit(RtConnect(RtClearTimeout(RtCur), throws))
    /\ hist' = [hist EXCEPT !.rtScheduled = 0]
    /\ UNCHANGED <<wsVars, apVars, rtSnapVars, status,
                   dispatched, rtPhase, asConnVars>>

\* the timer set at line 64 fires
RtTimerFire(t, throws) ==
    /\ t \in rtTimers
    /\ LET h == [RtCur EXCEPT !.timers = @ \ {t}]
       IN /\ EventSourceAvailable(h, throws)
          /\ RtCommit(RtConnect(h, throws))
    /\ UNCHANGED <<wsVars, apVars, rtSnapVars, status,
                   dispatched, rtPhase, asConnVars, hist>>

\* the connection of event source e is established: open event
EsOpen(e) ==
    /\ esPhase[e] = "CONNECTING"
    /\ RtCommit(RtOnOpen([RtCur EXCEPT !.esPhase[e] = "OPEN"]))
    /\ hist' = [hist EXCEPT !.rtScheduled = 0]
    /\ UNCHANGED <<wsVars, apVars, rtSnapVars, status,
                   dispatched, rtPhase, asConnVars>>

\* the connection of event source e is lost (the browser will reconnect it)
\* or, while connecting, refused (fatal: the browser gives up): error event
EsError(e, fatal) ==
    /\ esPhase[e] \in {"CONNECTING", "OPEN"}
    /\ fatal => esPhase[e] = "CONNECTING"
    /\ nRtTimers < MaxTimers
    /\ RtCommit(RtOnError([RtCur EXCEPT !.esPhase[e] =
                              IF fatal THEN "CLOSED" ELSE "CONNECTING"]))
    /\ hist' = [hist EXCEPT !.rtScheduled = @ + 1]
    /\ UNCHANGED <<wsVars, apVars, rtSnapVars, status,
                   dispatched, rtPhase, asConnVars>>

\* the browser fires an event of an EventSource, and so runs the handler
\* registered at line 37, only if the source's readyState is not CLOSED
EsEventFires(phase) == phase # "CLOSED"

\* a frame of the server reaches event source e: e is open, or is closed and
\* the frame was in flight
RtFrame(e, text, now) ==
    LET late == esPhase[e] = "CLOSED"
    IN /\ esPhase[e] \in {"OPEN", "CLOSED"}
       /\ late => "rt" \notin hist.late
       /\ IF EsEventFires(esPhase[e])
          THEN RtHandle(FrameHist(late, "rt"), text, now)
          ELSE /\ hist' = FrameHist(late, "rt")
               /\ UNCHANGED <<wsVars, apVars, sseVars>>

(***************************************************************************)
(* useAgentStatus: connection.  The hook creates one EventSource per run   *)
(* of its effect; asSource is its phase.  The url is constant, so that the *)
(* effect runs once.                                                       *)
(***************************************************************************)
\* mount: the effect at lines 17-57; throws: createEventSource throws
AsMount(throws) ==
    /\ asPhase = "init"
    /\ asPhase' = "mounted"
    /\ asSource' = IF throws THEN asSource ELSE "CONNECTING"
    /\ asIsConnected' = IF throws THEN FALSE ELSE asIsConnected
    /\ UNCHANGED <<wsVars, apVars, rtSnapVars, status,
                   dispatched, rtConnVars, hist>>

\* unmount: the cleanup at lines 52-56
AsUnmount ==
    /\ asPhase = "mounted"
    /\ asPhase' = "unmounted"
    /\ asSource' = IF asSource # "UNUSED" THEN "CLOSED" ELSE asSource
    /\ UNCHANGED <<wsVars, apVars, rtSnapVars, status,
                   dispatched, rtConnVars, asIsConnected, hist>>

\* eventSource.onopen (lines 25-28)
AsOpen ==
    /\ asSource = "CONNECTING"
    /\ asSource' = "OPEN"
    /\ asIsConnected' = TRUE
    /\ UNCHANGED <<wsVars, apVars, rtSnapVars, status,
                   dispatched, rtConnVars, asPhase, hist>>

\* eventSource.onerror (lines 42-45); fatal as in EsError
AsError(fatal) ==
    /\ asSource \in {"CONNECTING", "OPEN"}
    /\ fatal => asSource = "CONNECTING"
    /\ asSource' = IF fatal THEN "CLOSED" ELSE "CONNECTING"
    /\ asIsConnected' = FALSE
    /\ UNCHANGED <<wsVars, apVars, rtSnapVars, status,
                   dispatched, rtConnVars, asPhase, hist>>

\* a frame of the server reaches the event source of useAgentStatus
AsFrame(text) ==
    LET late == asSource = "CLOSED"
    IN /\ asSource \in {"OPEN", "CLOSED"}
       /\ late => "as" \notin hist.late
       /\ IF EsEventFires(asSource)
          THEN AsHandle(FrameHist(late, "as"), text)
          ELSE /\ hist' = FrameHist(late, "as")
               /\ UNCHANGED <<wsVars, apVars, sseVars>>

(***************************************************************************)
(* Specifications.                                                         *)
(***************************************************************************)
Lifecycle ==
    \/ \E throws \in BOOLEAN : Mount(throws)
    \/ \E throws \in BOOLEAN : EffectRerun(throws)
    \/ Unmount
    \/ Reconnect
    \/ \E t \in TimerIds, throws \in BOOLEAN : RetryTimerFire(t, throws)
    \/ \E t \in TimerIds, throws \in BOOLEAN : ManualTimerFire(t, throws)
    \/ \E s \in SockIds : WsOpen(s)
    \/ \E s \in SockIds : WsFail(s)
    \/ \E s \in SockIds, code \in {NormalClosure} \cup AbnormalCodes : WsCloseClean(s, code)

Messaging(received, sent) ==
    \/ \E s \in SockIds, data \in received : WsOnMessage(s, data)
    \/ \E data \in sent : SendMessage(data)
    \/ ClearMessages
    \/ ApEffect

Next ==
    \/ Lifecycle
    \/ Messaging(DataInputs(AllFrames, {NoValue}), DataInputs(AllFrames, EventValues))
    \/ \E text \in RtFrames, now \in ClockValues : RtOnMessage(text, now)
    \/ \E text \in AsFrames : AsOnMessage(text)

Spec == Init /\ [][Next]_vars

\* the connection life cycle of useEnhancedWebSocket, for every retry budget
InitConn == InitWith({MaxCapacityCfg}, 0..MaxAttemptsCfg)
SpecConn == InitConn /\ [][Lifecycle]_vars

\* the messages buffer of a hook whose socket opens and stays open, for
\* every capacity
InitBuf == InitWith(0..MaxCapacityCfg, {MaxAttemptsCfg})
BufFrames == {BadFrame} \cup {Stringify(v) : v \in OtherValues}
NextBuf ==
    \/ Mount(FALSE)
    \/ \E s \in SockIds : WsOpen(s)
    \/ Messaging(DataInputs(BufFrames, {}), DataInputs({BadFrame}, OtherValues))
SpecBuf == InitBuf /\ [][NextBuf]_vars

\* the message path of an AgentProgress whose socket opens and stays open,
\* for every frame
InitMerge == InitWith({MaxCapacityCfg}, {MaxAttemptsCfg})
NextMerge ==
    \/ Mount(FALSE)
    \/ \E s \in SockIds : WsOpen(s)
    \/ Messaging(DataInputs(AllFrames, {NoValue}), DataInputs({}, OtherValues))
SpecMerge == InitMerge /\ [][NextMerge]_vars

\* the three status streams side by side (the socket of AgentProgress, the
\* event sources of useRealTimeStatus and useAgentStatus), sharing one budget
\* of events
InitStatus == InitWith({MaxCapacityCfg}, {MaxAttemptsCfg})
EventBudget == messageIdRef + Len(hist.rtEvents) + Len(dispatched) < MaxEvents
NextStatus ==
    \/ Mount(FALSE)
    \/ \E s \in SockIds : WsOpen(s)
    \/ EventBudget /\ \E s \in SockIds, data \in DataInputs(AllFrames, {NoValue}) :
                          WsOnMessage(s, data)
    \/ ApEffect
    \/ EventBudget /\ \E text \in RtFrames, now \in ClockValues : RtOnMessage(text, now)
    \/ EventBudget /\ \E text \in AsFrames : AsOnMessage(text)
SpecStatus == InitStatus /\ [][NextStatus]_vars

\* the two per-agent snapshots side by side (enhancedStatus.agents of
\* AgentProgress, agentStatuses of useRealTimeStatus), fed agent-status
\* events only
AgentBudget == messageIdRef + Len(hist.rtEvents) < MaxAgentEvents
AgentFrames == {Stringify(v) : v \in AgentStatusValues}
RtStampedFrames == {f \in RtFrames : f.wellFormed /\ f.value.timestamp # NoTimestamp}
NextAgents ==
    \/ Mount(FALSE)
    \/ \E s \in SockIds : WsOpen(s)
    \/ AgentBudget /\ \E s \in SockIds, data \in DataInputs(AgentFrames, {}) :
                          WsOnMessage(s, data)
    \/ ApEffect
    \/ AgentBudget /\ \E text \in RtStampedFrames : RtOnMessage(text, 2)
SpecAgents == InitStatus /\ [][NextAgents]_vars

\* the three hooks being closed while their servers keep sending: mount,
\* open, frames, then cleanup (unmount, or a changed dependency of the effect
\* of useEnhancedWebSocket) and frames that were in flight
CloseBudget == messageIdRef + Len(hist.rtEvents) + Len(dispatched) < MaxEvents
CloseFrames ==
    {f \in AgentFrames : f.value.agent.agent_name = "A"
                            /\ f.value.agent.status = "running"}
RtCloseFrames ==
    {f \in RtStampedFrames : f.value.agent = "A" /\ f.value.status = "running"}
AsCloseFrames ==
    {f \in AsFrames : /\ f.wellFormed
                      /\ f.value.current_agent = "A"
                      /\ f.value.progress_percent = 40}
NextClose ==
    \/ Mount(FALSE)
    \/ EffectRerun(FALSE)
    \/ Unmount
    \/ \E s \in SockIds : WsOpen(s)
    \/ \E s \in SockIds : WsCloseClean(s, NormalClosure)
    \/ CloseBudget /\ \E s \in SockIds, data \in DataInputs(CloseFrames, {}) :
                          WsFrame(s, data, FALSE)
    \/ ApEffect
    \/ RtMount(FALSE)
    \/ RtUnmount
    \/ \E e \in SockIds : EsOpen(e)
    \/ CloseBudget /\ \E e \in SockIds, text \in RtCloseFrames : RtFrame(e, text, 2)
    \/ AsMount(FALSE)
    \/ AsUnmount
    \/ AsOpen
    \/ CloseBudget /\ \E text \in AsCloseFrames : AsFrame(text)
SpecClose == InitStatus /\ [][NextClose]_vars

\* the connection life cycle of useRealTimeStatus, next to a socket policy of
\* every retry budget
NextRtConn ==
    \/ \E throws \in BOOLEAN : RtMount(throws)
    \/ RtUnmount
    \/ \E throws \in BOOLEAN : RtReconnect(throws)
    \/ \E t \in TimerIds, throws \in BOOLEAN : RtTimerFire(t, throws)
    \/ \E e \in SockIds : EsOpen(e)
    \/ \E e \in SockIds, fatal \in BOOLEAN : EsError(e, fatal)
SpecRtConn == InitConn /\ [][NextRtConn]_vars

\* the two decoders side by side, fed frames of every kind: events, JSON
\* values with an unknown or a missing discriminator, non-JSON frames
DecodeBudget == messageIdRef + Len(hist.rtEvents) < MaxEvents
DecodeFrames ==
    {f \in AllFrames : f.wellFormed => f.value.type # "workflow_progress"}
    \cup {Stringify(NoValue)}
RtDecodeFrames ==
    {f \in RtStampedFrames : f.value.agent = "A"} \cup RtOtherFrames
NextDecode ==
    \/ Mount(FALSE)
    \/ \E s \in SockIds : WsOpen(s)
    \/ DecodeBudget /\ \E s \in SockIds, data \in DataInputs(DecodeFrames, {}) :
                           WsOnMessage(s, data)
    \/ ApEffect
    \/ DecodeBudget /\ \E text \in RtDecodeFrames : RtOnMessage(text, 2)
SpecDecode == InitStatus /\ [][NextDecode]_vars

\* a page that uses one of the two hooks: the connection life cycle of
\* useEnhancedWebSocket or that of useRealTimeStatus
NextCtor ==
    \/ rtPhase = "init" /\ Lifecycle
    \/ hookPhase = "init" /\ NextRtConn
SpecCtor == InitConn /\ [][NextCtor]_vars

\* the listeners of the two publishing hooks: onMessage of
\* useEnhancedWebSocket, which may throw, for every capacity of the buffer,
\* and the agentStatusUpdate event of useAgentStatus
ListenBudget == messageIdRef + Len(dispatched) < MaxEvents
NextListen ==
    \/ Mount(FALSE)
    \/ \E s \in SockIds : WsOpen(s)
    \/ \E s \in SockIds : WsFail(s)
    \/ \E t \in TimerIds : RetryTimerFire(t, FALSE)
    \/ ListenBudget /\ \E s \in SockIds, data \in DataInputs(BufFrames, {}),
                           throws \in BOOLEAN : WsFrame(s, data, throws)
    \/ AsMount(FALSE)
    \/ AsOpen
    \/ ListenBudget /\ \E text \in AsCloseFrames \cup {AsBadFrame} : AsFrame(text)
SpecListen == InitBuf /\ [][NextListen]_vars

\* the two snapshots and the consumers that keep an earlier one: events of
\* every kind on the socket of AgentProgress, status updates on the event
\* source of useRealTimeStatus
HoldBudget == messageIdRef + Len(hist.rtEvents) < MaxEvents
HoldFrames ==
    {BadFrame} \cup {Stringify(v) : v \in CompleteValues}
    \cup {f \in AgentFrames : f.value.agent.status = "running"}
RtHoldFrames ==
    {RtBadFrame} \cup {f \in RtStampedFrames : f.value.status = "running"}
NextHold ==
    \/ Mount(FALSE)
    \/ \E s \in SockIds : WsOpen(s)
    \/ HoldBudget /\ \E s \in SockIds, data \in DataInputs(HoldFrames, {}) :
                         WsOnMessage(s, data)
    \/ ApEffect
    \/ ApHold
    \/ RtMount(FALSE)
    \/ \E e \in SockIds : EsOpen(e)
    \/ HoldBudget /\ \E e \in SockIds, text \in RtHoldFrames : RtFrame(e, text, 2)
    \/ RtHold
SpecHold == InitStatus /\ [][NextHold]_vars

\* the workflow summary of AgentProgress, fed complete_status and
\* workflow_progress events whose counters are any two numbers (the fields
\* are typed `number' at lines 526-527 and no line compares them)
SkewedWorkflow == [total_agents |-> 5, completed_agents |-> 6]
FlowValues ==
    CompleteValues \cup WorkflowValues
    \cup {[type |-> "complete_status", agent |-> NoAgent,
           snap |-> [isNull |-> FALSE, agents |-> EmptyAgents,
                     workflow_progress |-> SkewedWorkflow, own |-> NoWorkflow]],
          [type |-> "workflow_progress", agent |-> NoAgent,
           snap |-> [isNull |-> FALSE, agents |-> EmptyAgents,
                     workflow_progress |-> NoWorkflow, own |-> SkewedWorkflow]]}
FlowFrames == {Stringify(v) : v \in FlowValues}
NextFlow ==
    \/ Mount(FALSE)
    \/ \E s \in SockIds : WsOpen(s)
    \/ \E s \in SockIds, data \in DataInputs(FlowFrames, {}) : WsOnMessage(s, data)
    \/ ApEffect
SpecFlow == InitStatus /\ [][NextFlow]_vars

\* useAgentStatus alone: its event source, frames of every kind
NextAs ==
    \/ \E throws \in BOOLEAN : AsMount(throws)
    \/ AsUnmount
    \/ AsOpen
    \/ \E fatal \in BOOLEAN : AsError(fatal)
    \/ \E text \in AsFrames : AsFrame(text)
SpecAs == InitStatus /\ [][NextAs]_vars

\* sendMessage in every state of the connection (no socket yet, connecting,
\* open, failed and waiting for the retry), for every capacity of the buffer
SendInputs == DataInputs({BadFrame}, OtherValues)
NextSend ==
    \/ Mount(FALSE)
    \/ \E s \in SockIds : WsOpen(s)
    \/ \E s \in SockIds : WsFail(s)
    \/ \E t \in TimerIds : RetryTimerFire(t, FALSE)
    \/ \E s \in SockIds, data \in DataInputs(BufFrames, {}) : WsOnMessage(s, data)
    \/ \E data \in SendInputs : SendMessage(data)
SpecSend == InitBuf /\ [][NextSend]_vars

\* the data the two hooks accumulate, across failures, automatic retries
\* and manual reconnects; the two hooks share one budget of transports,
\* one of timers and one of events
KeepTransports == nSockets + nEventSources < MaxSockets + 1
KeepTimers == nTimers + nRtTimers < MaxTimers - 1
KeepBudget == messageIdRef + Len(hist.rtEvents) < MaxEvents - 1
NextKeep ==
    \/ Mount(FALSE)
    \/ \E s \in SockIds : WsOpen(s)
    \/ KeepTimers /\ \E s \in SockIds : WsFail(s)
    \/ \E s \in SockIds : WsCloseClean(s, NormalClosure)
    \/ KeepTransports /\ \E t \in TimerIds : RetryTimerFire(t, FALSE)
    \/ KeepTimers /\ Reconnect
    \/ KeepTransports /\ \E t \in TimerIds : ManualTimerFire(t, FALSE)
    \/ KeepBudget /\ \E s \in SockIds, data \in DataInputs(CloseFrames, {}) :
                         WsOnMessage(s, data)
    \/ ClearMessages
    \/ RtMount(FALSE)
    \/ \E e \in SockIds : EsOpen(e)
    \/ KeepTimers /\ \E e \in SockIds : EsError(e, FALSE)
    \/ KeepTransports /\ \E t \in TimerIds : RtTimerFire(t, FALSE)
    \/ KeepTransports /\ RtReconnect(FALSE)
    \/ KeepBudget /\ \E e \in SockIds, text \in RtCloseFrames : RtFrame(e, text, 2)
SpecKeep == InitStatus /\ [][NextKeep]_vars

(***************************************************************************)
(* Properties of the connection life cycle.                                *)
(***************************************************************************)
\* this step handles a close event with a code other than 1000
AbnormalCloseStep == hist'.abnormal = hist.abnormal + 1

\* C1: with maxReconnectAttempts = N and the attempt counter starting at 0,
\* after k consecutive abnormal closes min(k, N) retries have been scheduled,
\* and a close after the Nth schedules nothing and leaves connectionStatus
\* 'disconnected' with no retry timer pending.
C1_ExactlyNRetriesThenStop ==
    [][AbnormalCloseStep =>
        /\ hist'.scheduled = Min(hist'.abnormal, maxReconnectAttempts)
        /\ hist'.abnormal > maxReconnectAttempts =>
              /\ connectionStatus' = "disconnected"
              /\ retryTimers' = {}]_vars

\* C2: the close event of a socket that disconnect() closed with code 1000
\* (whether it was connecting or open at that time) schedules no retry timer.
C2_ManualCloseNeverSchedulesRetry ==
    [][\A s \in SockIds :
          sockPhase[s] \in {"CLOSING_C", "CLOSING_O"} /\ sockPhase'[s] = "CLOSED"
              => retryTimers' \subseteq retryTimers]_vars

\* socket s is live: connecting or open, not closed nor asked to close
Live(s) == sockPhase[s] \in {"CONNECTING", "OPEN"}

\* this step is a timer callback, which calls connect directly
TimerStep ==
    \/ retryTimers' # retryTimers /\ retryTimers' \subseteq retryTimers
          /\ reconnectTimeoutRef' = reconnectTimeoutRef
    \/ manualTimers' # manualTimers /\ manualTimers' \subseteq manualTimers

\* C3: at most one socket created by the hook is live at any time and wsRef
\* refers to it, and connect called while the current socket is open creates
\* no socket.
C3_AtMostOneLiveSocket ==
    /\ [](/\ Cardinality({s \in SockIds : Live(s)}) <= 1
          /\ \A s \in SockIds : Live(s) => wsRef = s)
    /\ [][TimerStep /\ AlreadyOpen(Cur) => nSockets' = nSockets]_vars

(***************************************************************************)
(* Properties of the messages buffer.                                      *)
(***************************************************************************)
\* C4: the messages buffer never holds more than maxMessages entries, for
\* every capacity maxMessages >= 0.
C4_BufferNeverExceedsCapacity == Len(messages) <= maxMessages

\* the last n elements of a sequence
LastN(seq, n) == SubSeq(seq, Len(seq) - n + 1, Len(seq))

\* C5: the buffer equals the most recent min(k, maxMessages) of the k
\* messages appended since the last clearMessages, in append order.
C5_StrictFifo ==
    messages = LastN(hist.appended, Min(Len(hist.appended), maxMessages))

(***************************************************************************)
(* Properties of the snapshot merges.                                      *)
(***************************************************************************)
\* this step merges a parsed status update into agentStatuses
RtMergeStep == Len(hist'.rtEvents) = Len(hist.rtEvents) + 1
RtMerged == hist'.rtEvents[Len(hist'.rtEvents)].data

\* this step merges an agent_status message into enhancedStatus.agents
ApMergeStep == Len(hist'.apEvents) = Len(hist.apEvents) + 1
ApMerged == hist'.apEvents[Len(hist'.apEvents)]

RtNames(evs) == {evs[i].data.agent : i \in 1..Len(evs)}
RtLastFor(n, evs) ==
    evs[CHOOSE i \in 1..Len(evs) :
            /\ evs[i].data.agent = n
            /\ \A j \in (i + 1)..Len(evs) : evs[j].data.agent # n]
ApNames(evs) == {evs[i].agent_name : i \in 1..Len(evs)}
ApLastFor(n, evs) ==
    evs[CHOOSE i \in 1..Len(evs) :
            /\ evs[i].agent_name = n
            /\ \A j \in (i + 1)..Len(evs) : evs[j].agent_name # n]

\* C7: after any sequence of agent-status events the snapshot has an entry
\* for exactly the names that occurred (besides those it started with), each
\* holding the last value applied for that name, so that the snapshot does
\* not depend on how events of different names interleave; an event for one
\* name leaves the entries of all other names unchanged and removes none.
C7_LastValuePerName ==
    /\ [](/\ agentStatuses =
                [n \in RtNames(hist.rtEvents) |->
                    LET e == RtLastFor(n, hist.rtEvents)
                    IN RtEntry(e.data, e.now)]
          /\ enhancedStatus.agents =
                [n \in DOMAIN hist.apBase \cup ApNames(hist.apEvents) |->
                    IF n \in ApNames(hist.apEvents)
                    THEN ApLastFor(n, hist.apEvents)
                    ELSE hist.apBase[n]])
    /\ [][/\ RtMergeStep =>
                \A n \in DOMAIN agentStatuses \ {RtMerged.agent} :
                    n \in DOMAIN agentStatuses' /\ agentStatuses'[n] = agentStatuses[n]
          /\ ApMergeStep =>
                \A n \in DOMAIN enhancedStatus.agents \ {ApMerged.agent_name} :
                    /\ n \in DOMAIN enhancedStatus'.agents
                    /\ enhancedStatus'.agents[n] = enhancedStatus.agents[n]]_vars

\* events for both names were merged, one name after the other, into
\* agentStatuses, and an agent_status event into enhancedStatus.agents
C7_Witness ==
    /\ RtNames(hist.rtEvents) = Names
    /\ DOMAIN agentStatuses = Names
    /\ Len(hist.apEvents) = 1
    /\ DOMAIN enhancedStatus.agents = ApNames(hist.apEvents)

\* the message the effect of AgentProgress processed last
ApLastValue == ParseJSON(hist.apLast.text).value
ApLastIs(type) ==
    /\ hist.apLast.seen
    /\ ParseJSON(hist.apLast.text).ok
    /\ ApLastValue.type = type

\* C8: after a complete_status event the agents map and the workflow summary
\* are those of the event; agents of the prior state only are gone.
C8_CompleteStatusReplaces ==
    ApLastIs("complete_status") =>
        /\ enhancedStatus.agents = ApLastValue.snap.agents
        /\ enhancedStatus.workflow_progress = ApLastValue.snap.workflow_progress
        /\ \A n \in DOMAIN hist.apPrev.agents \ DOMAIN ApLastValue.snap.agents :
              n \notin DOMAIN enhancedStatus.agents

\* a complete_status event carrying only A was applied to a state holding B
C8_Witness ==
    /\ ApLastIs("complete_status")
    /\ DOMAIN ApLastValue.snap.agents = {"A"}
    /\ "B" \in DOMAIN hist.apPrev.agents
    /\ DOMAIN enhancedStatus.agents = {"A"}

\* C9: a workflow_progress event replaces the workflow summary only and
\* leaves the agents map unchanged; an agent_status event leaves the
\* workflow summary unchanged.
C9_DisjointUpdates ==
    /\ ApLastIs("workflow_progress") =>
          /\ enhancedStatus.agents = hist.apPrev.agents
          /\ enhancedStatus.workflow_progress = ApLastValue.snap.own
    /\ ApLastIs("agent_status") =>
          enhancedStatus.workflow_progress = hist.apPrev.workflow_progress

(***************************************************************************)
(* Properties of decoding.                                                 *)
(***************************************************************************)
\* this step is ws.onmessage for a frame that is not JSON
BadFrameStep ==
    /\ Len(hist'.appended) = Len(hist.appended) + 1
    /\ hist'.appended[Len(hist'.appended)].type = "received"
    /\ ~hist'.appended[Len(hist'.appended)].message.wellFormed

\* a frame that is not JSON changes none of the three snapshots and
\* dispatches no 'agentStatusUpdate' event
BadFrameLeavesSnapshots ==
    /\ hist.apLast.seen /\ ~hist.apLast.text.wellFormed =>
          enhancedStatus = hist.apPrev
    /\ hist.rtLast.seen /\ ~hist.rtLast.text.wellFormed =>
          agentStatuses = hist.rtPrev
    /\ hist.asLast.seen /\ ~hist.asLast.text.wellFormed =>
          status = hist.asPrev.status /\ dispatched = hist.asPrev.dispatched

ManualStep ==
    \/ Reconnect
    \/ Unmount
    \/ \E throws \in BOOLEAN : Mount(throws) \/ EffectRerun(throws)

\* the retry budget is used up and nothing is left that could act: no timer
\* pending, no socket connecting, open or closing
Exhausted ==
    /\ hookPhase = "mounted"
    /\ reconnectAttemptsRef >= maxReconnectAttempts
    /\ retryTimers = {} /\ manualTimers = {}
    /\ \A s \in SockIds : sockPhase[s] \in {"UNUSED", "CLOSED"}

\* C12: reconnect() cancels any pending retry timer, resets the attempt
\* counter to 0 and opens a transport at once (connectionStatus
\* 'connecting'), in every state; without a manual action an exhausted
\* connection opens no transport and keeps its connectionStatus.
C12_ReconnectOpensImmediately ==
    /\ [][Reconnect =>
            /\ retryTimers' = {}
            /\ reconnectAttemptsRef' = 0
            /\ nSockets' = nSockets + 1
            /\ wsRef' = nSockets'
            /\ connectionStatus' = "connecting"]_vars
    /\ [][Exhausted /\ ~ManualStep =>
            /\ nSockets' = nSockets
            /\ connectionStatus' = connectionStatus]_vars

\* this step calls disconnect(): unmount, the cleanup of a re-run effect,
\* reconnect
DisconnectStep ==
    \/ Reconnect
    \/ Unmount
    \/ \E throws \in BOOLEAN : EffectRerun(throws)

\* C13: when disconnect() is called while an automatic retry timer is
\* pending, the timer is cancelled: no retry timer is pending after the call,
\* so that none fires and reconnects later.
C13_DisconnectCancelsRetryTimer ==
    [][DisconnectStep /\ retryTimers # {} =>
          /\ retryTimers' = {}
          /\ reconnectTimeoutRef' = NullRef]_vars

(***************************************************************************)
(* Properties of the connection of useRealTimeStatus.                      *)
(***************************************************************************)
\* C14: in useRealTimeStatus the number of automatic reconnects scheduled
\* after consecutive transport errors with no successful open in between
\* never exceeds the maximum attempt count of the retry policy (the policy of
\* the socket, maxReconnectAttempts).
C14_SseRetriesBounded == hist.rtScheduled <= maxReconnectAttempts

(***************************************************************************)
(* Properties of the consumer of the messages buffer.                      *)
(***************************************************************************)
\* the ids of the received messages, in receipt order
ReceivedIds == [i \in 1..Len(onMessageCalls) |-> onMessageCalls[i].id]

\* C15: once the effect of AgentProgress has caught up with the buffer, the
\* messages it has applied to the snapshot are exactly the received messages,
\* each once and in receipt order: none skipped, none applied twice, none
\* out of order, and no message that was not received (such as one appended
\* by sendMessage).
C15_EveryReceivedAppliedOnce ==
    hookPhase = "mounted" /\ ~effectPending => hist.applied = ReceivedIds

(***************************************************************************)
(* Properties of decoding.                                                 *)
(***************************************************************************)
\* this step is a run of the effect of AgentProgress that read a message
ApReadStep == Len(hist'.applied) = Len(hist.applied) + 1

\* C16: a well-formed JSON frame whose discriminator is missing or is none
\* of agent_status, workflow_progress, complete_status leaves the snapshot
\* unchanged: enhancedStatus when the effect of AgentProgress applies it,
\* agentStatuses when eventSource.onmessage of useRealTimeStatus handles it.
C16_UnknownTypeLeavesSnapshot ==
    /\ [][ApReadStep /\ ParseJSON(hist'.apLast.text).ok
                     /\ ParseJSON(hist'.apLast.text).value.type \notin KnownTypes
            => enhancedStatus' = enhancedStatus]_vars
    /\ [][RtMergeStep /\ RtMerged.type \notin KnownTypes
            => agentStatuses' = agentStatuses]_vars

(***************************************************************************)
(* Properties of opening.                                                  *)
(***************************************************************************)
\* C17: a call of connect that creates a socket sets connectionStatus to
\* 'connecting'; the open event of a socket sets it to 'connected' and the
\* attempt counter to 0; so the first abnormal close after a successful open
\* finds the whole budget: with maxReconnectAttempts >= 1 it schedules a
\* retry and the counter becomes 1.
C17_OpenResetsAttempts ==
    /\ [][nSockets' = nSockets + 1 => connectionStatus' = "connecting"]_vars
    /\ [][\A s \in SockIds :
              sockPhase[s] = "CONNECTING" /\ sockPhase'[s] = "OPEN" =>
                  /\ connectionStatus' = "connected"
                  /\ isConnected'
                  /\ reconnectAttemptsRef' = 0]_vars
    /\ [][AbnormalCloseStep /\ hist.abnormal = 0 /\ maxReconnectAttempts >= 1 =>
              /\ reconnectAttemptsRef' = 1
              /\ retryTimers' # retryTimers
              /\ retryTimers \subseteq retryTimers']_vars

\* with a budget of one: the first socket failed, a second one opened and
\* then failed too, and a retry is pending again
C17_Witness ==
    /\ maxReconnectAttempts = 1
    /\ nSockets = 2 /\ nTimers = 2
    /\ \A s \in 1..2 : sockPhase[s] = "CLOSED"
    /\ manualTimers = {} /\ retryTimers = {2}
    /\ hist.abnormal = 1
    /\ reconnectAttemptsRef = 1

\* this step is a call of connect in which new WebSocket(url) throws
WsCtorThrows ==
    \/ Mount(TRUE)
    \/ EffectRerun(TRUE)
    \/ ~AlreadyOpen(Cur) /\ \E t \in TimerIds :
            RetryTimerFire(t, TRUE) \/ ManualTimerFire(t, TRUE)

\* this step is a call of connect of useRealTimeStatus in which
\* apiClient.createEventSource() throws
RtCtorThrows ==
    \/ RtMount(TRUE)
    \/ RtReconnect(TRUE)
    \/ \E t \in TimerIds : RtTimerFire(t, TRUE)

\* this step calls connect of useRealTimeStatus from outside its own timers
RtManualStep ==
    \/ RtUnmount
    \/ \E throws \in BOOLEAN : RtMount(throws) \/ RtReconnect(throws)

\* this step is the open that reconnect() deferred by 100 ms
DeferredOpenStep ==
    \E t \in TimerIds, throws \in BOOLEAN : ManualTimerFire(t, throws)

\* C18: a connect whose transport constructor throws leaves the connection
\* in the error state (connectionStatus 'error'; in useRealTimeStatus the
\* error message set and isConnected false), creates no transport, schedules
\* no timer and leaves the attempt counter unchanged; and while the
\* connection is in that error state no transport is created except by a
\* manual action (reconnect() and its deferred open included).
C18_ConstructionFailureIsFinal ==
    /\ [][WsCtorThrows =>
            /\ connectionStatus' = "error"
            /\ nSockets' = nSockets
            /\ retryTimers' \subseteq retryTimers
            /\ manualTimers' \subseteq manualTimers
            /\ reconnectAttemptsRef' = reconnectAttemptsRef]_vars
    /\ [][RtCtorThrows =>
            /\ rtError' = FailedToConnect
            /\ ~rtIsConnected'
            /\ nEventSources' = nEventSources
            /\ rtTimers' \subseteq rtTimers]_vars
    /\ [][connectionStatus = "error" /\ ~ManualStep /\ ~DeferredOpenStep =>
            nSockets' = nSockets]_vars
    /\ [][rtError = FailedToConnect /\ ~RtManualStep =>
            nEventSources' = nEventSources]_vars

(***************************************************************************)
(* Properties of the connection state.                                     *)
(***************************************************************************)
\* the connection has ended: explicitly closed for good (unmounted), or the
\* retry budget is used up and nothing is pending
TerminalState == hookPhase = "unmounted" \/ Exhausted

\* C19: connectionStatus becomes 'connected' only from 'connecting', and
\* once the connection has ended (explicit close, or budget exhausted)
\* connectionStatus changes only by a manual action.
C19_ConnectedOnlyFromConnecting ==
    /\ [][connectionStatus' = "connected" /\ connectionStatus # "connected" =>
              connectionStatus = "connecting"]_vars
    /\ [][TerminalState /\ ~ManualStep =>
              connectionStatus' = connectionStatus]_vars

(***************************************************************************)
(* Properties of the listeners.                                            *)
(***************************************************************************)
\* this step is a message event of useEnhancedWebSocket: onMessage is called
MessageEventStep == Len(onMessageCalls') = Len(onMessageCalls) + 1

\* the message the listener was called with in this step
Delivered == onMessageCalls'[Len(onMessageCalls')]

\* C20: no message is passed to onMessage twice and one message event
\* dispatches at most one agentStatusUpdate; and in every message event of
\* useEnhancedWebSocket, whether onMessage throws or returns and whatever it
\* did for earlier messages, the message is the last of the buffer and is
\* lastMessage, and connection state, refs and timers are unchanged.
C20_ThrowingListenerLosesNothing ==
    /\ [](\A i, j \in 1..Len(onMessageCalls) :
             i # j => onMessageCalls[i].id # onMessageCalls[j].id)
    /\ [][Len(dispatched') <= Len(dispatched) + 1]_vars
    /\ [][MessageEventStep =>
              /\ messages' # <<>>
              /\ messages'[Len(messages')] = Delivered
              /\ lastMessage' = Delivered
              /\ UNCHANGED connVars]_vars

\* the listener threw for the first message and returned for the second,
\* and both are in the buffer
C20_Witness ==
    /\ Len(onMessageCalls) = 2
    /\ hist.threw = {onMessageCalls[1].id}
    /\ maxMessages = MaxCapacityCfg
    /\ messages = onMessageCalls
    /\ lastMessage = onMessageCalls[2]

(***************************************************************************)
(* Properties of the snapshot objects.                                     *)
(***************************************************************************)
\* C21: every application of an event makes the state refer to a new
\* object, the object a consumer kept still has the content it had when it
\* was taken, and what a consumer sees after an event is either the
\* snapshot before it or the snapshot with the whole event merged.
C21_SnapshotsNeverMutated ==
    /\ [](/\ apHeld.ref # NoRef => apHeld.now = apHeld.then
          /\ rtHeld.ref # NoRef => rtHeld.now = rtHeld.then)
    /\ [][/\ ApReadStep /\ SetsStatus(hist'.apLast.text) =>
                apObj' \notin {apObj, apHeld.ref}
          /\ enhancedStatus' # enhancedStatus => apObj' # apObj
          /\ RtMergeStep => rtObj' \notin {rtObj, rtHeld.ref}
          /\ agentStatuses' # agentStatuses => rtObj' # rtObj]_vars
    /\ [][/\ ApReadStep =>
                enhancedStatus' = ApplyMessage(enhancedStatus, hist'.apLast.text)
          /\ RtMergeStep =>
                agentStatuses' = RtMerge(agentStatuses, RtMerged,
                                         hist'.rtEvents[Len(hist'.rtEvents)].now)
          /\ ~ApReadStep => enhancedStatus' = enhancedStatus
          /\ ~RtMergeStep => agentStatuses' = agentStatuses]_vars

\* each consumer kept a snapshot, and a later event changed the agents map
\* of the current one
C21_Witness ==
    /\ apHeld.ref \notin {NoRef, apObj}
    /\ enhancedStatus.agents # apHeld.then.agents
    /\ rtHeld.ref \notin {NoRef, rtObj}
    /\ agentStatuses # rtHeld.then

\* C22: in every snapshot whose workflow summary is known, completed_agents
\* is at most total_agents, after any sequence of workflow_progress and
\* complete_status events.
C22_CompletedAtMostTotal ==
    enhancedStatus.workflow_progress # NoWorkflow =>
        enhancedStatus.workflow_progress.completed_agents
            <= enhancedStatus.workflow_progress.total_agents

(***************************************************************************)
(* Properties of the teardown of useRealTimeStatus.                        *)
(***************************************************************************)
\* C23: the cleanup of useRealTimeStatus on unmount leaves no reconnect
\* timer pending and no event source open or connecting, whatever number of
\* onerror events came before it, and after unmount no EventSource is
\* created.
C23_TeardownCancelsEveryTimer ==
    /\ [][RtUnmount =>
            /\ rtTimers' = {}
            /\ \A e \in SockIds : esPhase'[e] \in {"UNUSED", "CLOSED"}]_vars
    /\ [][rtPhase = "unmounted" => nEventSources' = nEventSources]_vars

(***************************************************************************)
(* Properties of the teardown of useEnhancedWebSocket.                     *)
(***************************************************************************)
\* C24: after the cleanup on unmount called disconnect(), and with neither
\* connect nor reconnect called since, no WebSocket is created, whatever
\* happened before the close (a reconnect() whose open is still deferred
\* included).
C24_NoSocketAfterExplicitClose ==
    [][hookPhase = "unmounted" => nSockets' = nSockets]_vars

(***************************************************************************)
(* Properties of the event sources of useRealTimeStatus.                   *)
(***************************************************************************)
\* event source e is not closed
EsLive(e) == esPhase[e] \in {"CONNECTING", "OPEN"}

\* C25: while useRealTimeStatus is mounted at most one EventSource it
\* created is not closed, and it is the one eventSourceRef refers to; a
\* connect that creates an EventSource (on mount, from a retry timer, from
\* reconnect()) has closed every earlier one.
C25_AtMostOneEventSource ==
    /\ [](rtPhase = "mounted" =>
            /\ Cardinality({e \in SockIds : EsLive(e)}) <= 1
            /\ \A e \in SockIds : EsLive(e) => eventSourceRef = e)
    /\ [][nEventSources' = nEventSources + 1 =>
            \A e \in 1..nEventSources : esPhase'[e] = "CLOSED"]_vars

\* the third event source of a mounted hook is live, the two before it are
\* closed, and a retry timer set by onerror is pending
C25_Witness ==
    /\ rtPhase = "mounted"
    /\ nEventSources = 3
    /\ EsLive(3) /\ esPhase[1] = "CLOSED" /\ esPhase[2] = "CLOSED"
    /\ rtTimers # {}

(***************************************************************************)
(* Properties of useAgentStatus.                                           *)
(***************************************************************************)
\* this step is the message event of a frame with this text
AsMessageStep(text) == asSource = "OPEN" /\ AsFrame(text)

\* C26: the status useAgentStatus returns is the payload of the most recent
\* frame that parsed as JSON, and null if there was none; a frame that does
\* not parse leaves the status unchanged and dispatches no
\* 'agentStatusUpdate'; a frame that parses dispatches exactly one, carrying
\* its payload; nothing else changes the status or dispatches.
C26_StatusIsLastParsedFrame ==
    /\ [](status = IF dispatched = <<>> THEN NoAsValue
                   ELSE dispatched[Len(dispatched)])
    /\ [][\A text \in AsFrames : AsMessageStep(text) =>
            IF ParseJSON(text).ok
            THEN /\ status' = ParseJSON(text).value
                 /\ dispatched' = Append(dispatched, ParseJSON(text).value)
            ELSE UNCHANGED <<status, dispatched>>]_vars
    /\ [][(\A text \in AsFrames : ~AsMessageStep(text)) =>
            UNCHANGED <<status, dispatched>>]_vars

\* two frames with different payloads were parsed, then a frame that does not
\* parse arrived, and the status is the payload of the second
C26_Witness ==
    /\ Len(dispatched) = 2
    /\ dispatched[1] # dispatched[2]
    /\ status = dispatched[2]
    /\ hist.asLast.seen /\ ~hist.asLast.text.wellFormed
    /\ asSource = "OPEN"

(***************************************************************************)
(* Properties of the retry timers of useEnhancedWebSocket.                 *)
(***************************************************************************)
\* C27: at most one automatic reconnect timer of useEnhancedWebSocket is
\* pending at any time: a retry timer is scheduled only when none is pending.
C27_AtMostOneRetryTimer ==
    /\ [](Cardinality(retryTimers) <= 1)
    /\ [][~(retryTimers' \subseteq retryTimers) => retryTimers = {}]_vars

(***************************************************************************)
(* Properties of the connection indicators of useEnhancedWebSocket.        *)
(***************************************************************************)
\* C28: in every reachable state of useEnhancedWebSocket isConnected is true
\* if and only if connectionStatus is 'connected'.
C28_IndicatorsAgree == isConnected <=> connectionStatus = "connected"

(***************************************************************************)
(* Properties of sendMessage.                                              *)
(***************************************************************************)
\* seq is what is left of full after dropping entries from its front
IsSuffix(seq, full) ==
    /\ Len(seq) <= Len(full)
    /\ seq = SubSeq(full, Len(full) - Len(seq) + 1, Len(full))

WsReconnectStep ==
    \/ Reconnect
    \/ \E t \in TimerIds, throws \in BOOLEAN :
            RetryTimerFire(t, throws) \/ ManualTimerFire(t, throws)

\* this step is reconnect() of useRealTimeStatus or a connect made by its
\* retry timer
RtReconnectStep ==
    \E throws \in BOOLEAN :
        RtReconnect(throws) \/ \E t \in TimerIds : RtTimerFire(t, throws)

\* C30: a reconnect, automatic or manual, leaves the messages buffer and
\* lastMessage of useEnhancedWebSocket and the agentStatuses map of
\* useRealTimeStatus as they were; the buffer and lastMessage are emptied
\* by clearMessages only, and agentStatuses never loses an entry while the
\* hook is mounted.
C30_ReconnectKeepsData ==
    /\ [][WsReconnectStep => UNCHANGED <<messages, lastMessage>>]_vars
    /\ [][RtReconnectStep => UNCHANGED agentStatuses]_vars
    /\ [][\/ messages # <<>> /\ messages' = <<>>
          \/ lastMessage # NoMessage /\ lastMessage' = NoMessage
            => ClearMessages]_vars
    /\ [][DOMAIN agentStatuses \subseteq DOMAIN agentStatuses']_vars

\* the socket failed after a message had been received and its retry timer
\* made the second socket; the event source got a status update and
\* reconnect() then made the second event source; buffer, lastMessage and
\* agentStatuses still hold the data
C30_Witness ==
    /\ nSockets = 2 /\ sockPhase[1] = "CLOSED" /\ sockPhase[2] = "CONNECTING"
    /\ nTimers = 1 /\ retryTimers = {} /\ reconnectAttemptsRef = 1
    /\ messages # <<>> /\ lastMessage = messages[Len(messages)]
    /\ nEventSources = 2 /\ esPhase[1] = "CLOSED" /\ esPhase[2] = "CONNECTING"
    /\ nRtTimers = 0
    /\ DOMAIN agentStatuses = {"A"}

====
